---------------------------- MODULE Spec2Model ----------------------------
(***************************************************************************)
(* A model of the floor-plan extraction and reconstruction pipeline:       *)
(*   src/ai/ai_v3.py   clean_json_response, validate_and_fix_structure,    *)
(*                     detect_close_parallel_walls, floorplan_png_to_json  *)
(*   src/genplan.py    the Revit wall-creation script                      *)
(*                                                                         *)
(* Conventions.                                                            *)
(*  - A Python str is a sequence of strings, each one character or a run   *)
(*    of characters the model never looks into.                            *)
(*  - A Python float is a record [c, v]: c is "fin", "inf", "ninf" or      *)
(*    "nan"; a finite value is v/16 (fixed point, v an integer).  FloatMax *)
(*    stands for sys.float_info.max, scaled down to the model's range.     *)
(*  - A JSON value is a record tagged t: "null", "bool", "num", "str",     *)
(*    "list" (items, a sequence of values) or "obj" (fields, by key).       *)
(*  - A call's outcome is [ok |-> TRUE, val |-> ...] or                    *)
(*    [ok |-> FALSE, exc |-> <exception class>].                           *)
(***************************************************************************)
EXTENDS Integers, Sequences, FiniteSets, TLC

VARIABLES
    vData,      \* validate_and_fix_structure: the caller's object, data
    vGiven,     \* the caller's object as it was when the call was made
    vOut,       \* outcome of validate_and_fix_structure(data)
    vOut2,      \* outcome of validate_and_fix_structure(<first result>)
    vPc,        \* "ready", "validated", "revalidated"
    cText,      \* clean_json_response: the argument response_text
    cOut,       \* the text clean_json_response returns
    cPc,        \* "ready", "cleaned"
    dWalls,     \* detect_close_parallel_walls: the argument walls
    dOut,       \* outcome of detect_close_parallel_walls(walls)
    dPc,        \* "ready", "detected"
    api_key,        \* floorplan_png_to_json: the api_key argument, then the key used
    env_key,        \* os.getenv('ANTHROPIC_API_KEY') after load_dotenv()
    png_exists,     \* os.path.exists(png_path)
    output_path,    \* the output_path argument
    oCalls,         \* calls made to client.messages.create
    oRaw,           \* message.content[0].text as the vision model returned it
    response_text,  \* the local variable response_text
    result,         \* the local variable result
    oFailure,       \* which step failed: "none", "call", "parse", "validate"
    oSaved,         \* what save_json_output wrote
    oExc,           \* the exception the call raised to its caller
    oPc,            \* the position in floorplan_png_to_json
    doc,            \* genplan.py: the Revit document, [levels, walls]
    wall_types,     \* the document's WallType elements, in collector order
    WALL_TYPE_NAME, \* the preferred wall type name, or None
    height_ft,      \* metadata height as a float, or None
    heightParam,    \* whether the host's walls take WALL_USER_HEIGHT_PARAM
    gWalls,         \* data.get("walls", []) of the run
    gIndex,         \* the per-wall loop's position in gWalls (1-based)
    created,        \* the list created: <<sid, ElementId>> pairs
    base_level,     \* the level the run uses
    wall_type,      \* the wall type the run uses
    txn,            \* the Transaction t: "none", "started", "committed", "rolled_back"
    tLog,           \* the calls the run has made on t, in order
    gSnapshot,      \* the document as it was at t.Start()
    gExc,           \* the exception the script ended with
    gRuns,          \* script executions begun
    gCommitted,     \* script executions that committed
    gInitLevels,    \* the levels of the document before the first run
    gPc             \* the position in the script

vVars == <<vData, vGiven, vOut, vOut2, vPc>>
cVars == <<cText, cOut, cPc>>
dVars == <<dWalls, dOut, dPc>>
oVars == <<api_key, env_key, png_exists, output_path, oCalls, oRaw, response_text,
           result, oFailure, oSaved, oExc, oPc>>

gVars == <<doc, wall_types, WALL_TYPE_NAME, height_ft, heightParam, gWalls, gIndex,
           created, base_level, wall_type, txn, tLog, gSnapshot, gExc, gRuns,
           gCommitted, gInitLevels, gPc>>

vars == <<vVars, cVars, dVars, oVars, gVars>>

\* What an action of one component leaves alone: the other components.
vOthers == <<cVars, dVars, oVars, gVars>>
cOthers == <<vVars, dVars, oVars, gVars>>
dOthers == <<vVars, cVars, oVars, gVars>>
oOthers == <<vVars, cVars, dVars, gVars>>
gOthers == <<vVars, cVars, dVars, oVars>>

None == [ok |-> FALSE, exc |-> "none"]
Ok(x) == [ok |-> TRUE, val |-> x]
Raise(e) == [ok |-> FALSE, exc |-> e]

(***************************************************************************)
(* Bounds of the model.                                                    *)
(***************************************************************************)
MaxWalls == 2
MaxRooms == 1
MaxSegments == 4
MaxDetectWalls == 2
MaxSegmentsPerRun == 3
MaxRuns == 2
FloatMax == 1000000

(***************************************************************************)
(* Python floats.                                                          *)
(***************************************************************************)
F(n) == [c |-> "fin", v |-> n]
Inf == [c |-> "inf", v |-> 0]
NInf == [c |-> "ninf", v |-> 0]
NaN == [c |-> "nan", v |-> 0]

\* IEEE overflow of +, -, *: the result is an infinity, nothing is raised.
Round(n) == IF n > FloatMax THEN Inf ELSE IF n < -FloatMax THEN NInf ELSE F(n)

FNeg(a) ==
    CASE a.c = "inf" -> NInf
      [] a.c = "ninf" -> Inf
      [] a.c = "nan" -> NaN
      [] OTHER -> F(-a.v)

FAdd(a, b) ==
    CASE a.c = "nan" \/ b.c = "nan" -> NaN
      [] a.c = "fin" /\ b.c = "fin" -> Round(a.v + b.v)
      [] a.c = "fin" -> b
      [] b.c = "fin" -> a
      [] a.c = b.c -> a
      [] OTHER -> NaN

FSub(a, b) == FAdd(a, FNeg(b))

Sign(a) ==
    CASE a.c = "inf" -> 1
      [] a.c = "ninf" -> -1
      [] a.c = "nan" -> 0
      [] OTHER -> IF a.v > 0 THEN 1 ELSE IF a.v < 0 THEN -1 ELSE 0

\* Truncating division, exact on the model's grid (coordinates are multiples
\* of 1/2, so every product is a multiple of 1/4).
TDiv(n, d) == IF n >= 0 THEN n \div d ELSE -((-n) \div d)

FMul(a, b) ==
    CASE a.c = "nan" \/ b.c = "nan" -> NaN
      [] a.c = "fin" /\ b.c = "fin" -> Round(TDiv(a.v * b.v, 16))
      [] Sign(a) * Sign(b) = 0 -> NaN
      [] Sign(a) * Sign(b) > 0 -> Inf
      [] OTHER -> NInf

FHalf(a) == IF a.c = "fin" THEN F(TDiv(a.v, 2)) ELSE a

FAbs(a) == IF a.c = "ninf" THEN Inf ELSE IF a.c = "fin" /\ a.v < 0 THEN F(-a.v) ELSE a

\* a < b; any comparison with nan is False.
FLt(a, b) ==
    CASE a.c = "nan" \/ b.c = "nan" -> FALSE
      [] a.c = "fin" /\ b.c = "fin" -> a.v < b.v
      [] a.c = "ninf" -> b.c # "ninf"
      [] b.c = "inf" -> a.c # "inf"
      [] OTHER -> FALSE

\* x ** 2: unlike *, float.__pow__ raises OverflowError when a finite
\* operand's result is out of range.
FPow2(a) ==
    CASE a.c = "nan" -> Ok(NaN)
      [] a.c # "fin" -> Ok(Inf)
      [] TDiv(a.v * a.v, 16) > FloatMax -> Raise("OverflowError")
      [] OTHER -> Ok(F(TDiv(a.v * a.v, 16)))

RECURSIVE ISqrtIn(_, _, _)
ISqrtIn(lo, hi, n) ==
    IF lo >= hi THEN lo
    ELSE LET mid == (lo + hi + 1) \div 2
         IN IF mid * mid <= n THEN ISqrtIn(mid, hi, n) ELSE ISqrtIn(lo, mid - 1, n)

\* floor(sqrt(n)) for 0 <= n < 2^30
ISqrt(n) == ISqrtIn(0, 32767, n)

\* x ** 0.5 of a non-negative float, rounded down to the grid.
FSqrt(a) == IF a.c = "fin" THEN F(ISqrt(16 * a.v)) ELSE a

(***************************************************************************)
(* JSON values as json.loads produces them.                                *)
(***************************************************************************)
Null == [t |-> "null"]
Bool(b) == [t |-> "bool", b |-> b]
Num(f) == [t |-> "num", f |-> f]
Str(s) == [t |-> "str", s |-> s]
List(s) == [t |-> "list", items |-> s]
Obj(f) == [t |-> "obj", fields |-> f]

EmptyDict == Obj(<<>>)
IsDict(x) == x.t = "obj"
Has(o, k) == k \in DOMAIN o.fields
\* dict.get(k, default)
Get(o, k, default) == IF Has(o, k) THEN o.fields[k] ELSE default
\* d[k] = x
Put(o, k, x) == Obj([j \in DOMAIN o.fields \cup {k} |-> IF j = k THEN x ELSE o.fields[j]])

s_wall_ == <<"w", "a", "l", "l", "_">>
s_UNKNOWN == <<"U", "N", "K", "N", "O", "W", "N">>
s_bed == <<"b", "e", "d">>
s_Bed == <<"B", "e", "d">>
s_BED == <<"B", "E", "D">>
Digits == <<"0", "1", "2", "3", "4", "5", "6", "7", "8", "9">>
DigitSet == {Digits[i] : i \in 1..10}
DigitVal(ch) == (CHOOSE i \in 1..10 : Digits[i] = ch) - 1

\* str(i) for i >= 0
RECURSIVE IntToStr(_)
IntToStr(i) == IF i < 10 THEN <<Digits[i + 1]>> ELSE IntToStr(i \div 10) \o <<Digits[(i % 10) + 1]>>

RECURSIVE DecimalValue(_)
DecimalValue(s) == IF s = <<>> THEN 0 ELSE 10 * DecimalValue(SubSeq(s, 1, Len(s) - 1)) + DigitVal(s[Len(s)])

Lower == <<"a", "b", "d", "e">>
Upper == <<"A", "B", "D", "E">>
\* str.upper(), character by character
UpperChar(ch) == IF \E i \in 1..Len(Lower) : Lower[i] = ch
                 THEN Upper[CHOOSE i \in 1..Len(Lower) : Lower[i] = ch]
                 ELSE ch
StrUpper(s) == [i \in 1..Len(s) |-> UpperChar(s[i])]

(***************************************************************************)
(* validate_and_fix_structure (src/ai/ai_v3.py:203-249)                    *)
(***************************************************************************)
\* float(x) for a JSON value x.  A str converts when it is a decimal literal
\* (the model's strings hold digits or letters only).
ToFloat(x) ==
    CASE x.t = "num" -> Ok(x.f)
      [] x.t = "bool" -> Ok(F(IF x.b THEN 16 ELSE 0))
      [] x.t = "str" -> IF x.s # <<>> /\ \A i \in 1..Len(x.s) : x.s[i] \in DigitSet
                        THEN Ok(Round(16 * DecimalValue(x.s)))
                        ELSE Raise("ValueError")
      [] OTHER -> Raise("TypeError")

\* float(rec.get(pointKey, {}).get(axis, 0))
CoordOf(rec, pointKey, axis) ==
    LET p == Get(rec, pointKey, EmptyDict)
    IN IF ~IsDict(p) THEN Raise("AttributeError")
       ELSE ToFloat(Get(p, axis, Num(F(0))))

\* The {'x': float(..), 'y': float(..)} display; x is evaluated first.
PointOf(rec, pointKey) ==
    LET x == CoordOf(rec, pointKey, "x")
        y == CoordOf(rec, pointKey, "y")
    IN IF ~x.ok THEN x
       ELSE IF ~y.ok THEN y
       ELSE Ok(Obj([k \in {"x", "y"} |-> IF k = "x" THEN Num(x.val) ELSE Num(y.val)]))

\* f'wall_{i}'
WallName(i) == Str(s_wall_ \o IntToStr(i))

\* A variant that ignores an id the entry already has
AlwaysRenumber(wall, i) == WallName(i)

\* wall.get('wall_id', f'wall_{i}')
WallIdOf(wall, i) == Get(wall, "wall_id", WallName(i))

\* The validated_wall display of lines 218-228.
ValidatedWall(wall, i) ==
    LET sp == PointOf(wall, "start_point")
        ep == PointOf(wall, "end_point")
    IN IF ~sp.ok THEN sp
       ELSE IF ~ep.ok THEN ep
       ELSE Ok(Obj([k \in {"wall_id", "start_point", "end_point"} |->
                       CASE k = "wall_id" -> WallIdOf(wall, i)
                         [] k = "start_point" -> sp.val
                         [] OTHER -> ep.val]))

\* room.get('room_name', 'UNKNOWN').upper()
RoomNameOf(room) ==
    LET n == Get(room, "room_name", Str(s_UNKNOWN))
    IN IF n.t = "str" THEN Ok(Str(StrUpper(n.s))) ELSE Raise("AttributeError")

\* The validated_room display of lines 237-243.
ValidatedRoom(room) ==
    LET n == RoomNameOf(room)
        cp == PointOf(room, "center_point")
    IN IF ~n.ok THEN n
       ELSE IF ~cp.ok THEN cp
       ELSE Ok(Obj([k \in {"room_name", "center_point"} |->
                       IF k = "room_name" THEN n.val ELSE cp.val]))

\* What a for loop over x iterates over: a list's items, a str's characters, a
\* dict's keys (neither of the last two is ever a dict); anything else raises.
IterItems(x) ==
    CASE x.t = "list" -> Ok(x.items)
      [] x.t = "str" -> Ok([i \in 1..Len(x.s) |-> Str(<<x.s[i]>>)])
      [] x.t = "obj" -> Ok(<<>>)
      [] OTHER -> Raise("TypeError")

\* The loop of lines 213-229 from the i-th item on, appended to acc.
RECURSIVE WallLoop(_, _, _)
WallLoop(items, i, acc) ==
    IF i > Len(items) THEN Ok(acc)
    ELSE IF ~IsDict(items[i]) THEN WallLoop(items, i + 1, acc)
    ELSE LET w == ValidatedWall(items[i], i)
         IN IF ~w.ok THEN w ELSE WallLoop(items, i + 1, Append(acc, w.val))

\* The loop of lines 232-244.
RECURSIVE RoomLoop(_, _, _)
RoomLoop(items, i, acc) ==
    IF i > Len(items) THEN Ok(acc)
    ELSE IF ~IsDict(items[i]) THEN RoomLoop(items, i + 1, acc)
    ELSE LET r == ValidatedRoom(items[i])
         IN IF ~r.ok THEN r ELSE RoomLoop(items, i + 1, Append(acc, r.val))

\* Lines 207-210: data after the two membership tests and assignments.  On a
\* value that is no dict the test or the item assignment raises TypeError (the
\* model's lists and strings do not contain 'walls').
EnsureKeys(data) ==
    IF ~IsDict(data) THEN Raise("TypeError")
    ELSE LET d1 == IF Has(data, "walls") THEN data ELSE Put(data, "walls", List(<<>>))
             d2 == IF Has(d1, "rooms") THEN d1 ELSE Put(d1, "rooms", List(<<>>))
         IN Ok(d2)

\* validate_and_fix_structure(data): [out |-> the outcome, data |-> the
\* caller's object when the call ends].
validate_and_fix_structure(data) ==
    LET d == EnsureKeys(data)
    IN IF ~d.ok THEN [out |-> d, data |-> data]
       ELSE LET wi == IterItems(Get(d.val, "walls", List(<<>>)))
                ws == IF wi.ok THEN WallLoop(wi.val, 1, <<>>) ELSE wi
                ri == IterItems(Get(d.val, "rooms", List(<<>>)))
                rs == IF ri.ok THEN RoomLoop(ri.val, 1, <<>>) ELSE ri
            IN [out |-> IF ~ws.ok THEN ws
                        ELSE IF ~rs.ok THEN rs
                        ELSE Ok(Obj([k \in {"walls", "rooms"} |->
                                        IF k = "walls" THEN List(ws.val) ELSE List(rs.val)])),
                data |-> d.val]

(***************************************************************************)
(* Inputs of validate_and_fix_structure: what json.loads can hand it.      *)
(***************************************************************************)
Half == Num(F(8))
One == Num(F(16))
Pt(x, y) == Obj([k \in {"x", "y"} |-> IF k = "x" THEN x ELSE y])
OnlyX(x) == Obj([k \in {"x"} |-> x])

WallEntries ==
    { Num(F(16)),
      EmptyDict,
      Obj([k \in {"wall_id", "start_point", "end_point"} |->
             CASE k = "wall_id" -> WallName(1)
               [] k = "start_point" -> Pt(Half, One)
               [] OTHER -> Pt(Num(F(24)), One)]),
      Obj([k \in {"wall_id", "start_point"} |->
             IF k = "wall_id" THEN WallName(2) ELSE OnlyX(Str(<<"2">>))]),
      Obj([k \in {"start_point"} |-> Pt(Str(<<"a">>), Half)]),
      Obj([k \in {"end_point"} |-> OnlyX(Null)]),
      Obj([k \in {"start_point"} |-> Null]),
      Obj([k \in {"wall_id", "end_point"} |->
             IF k = "wall_id" THEN Null ELSE OnlyX(Bool(TRUE))]) }

RoomEntries ==
    { Str(s_bed),
      EmptyDict,
      Obj([k \in {"room_name", "center_point"} |->
             IF k = "room_name" THEN Str(s_Bed) ELSE Pt(Half, Half)]),
      Obj([k \in {"room_name"} |-> Null]),
      Obj([k \in {"room_name", "center_point"} |->
             IF k = "room_name" THEN Str(s_BED) ELSE OnlyX(Str(<<"b">>))]) }

SeqsUpTo(S, n) == UNION {[1..m -> S] : m \in 0..n}

NonLists == {Null, Num(F(16)), Str(s_bed), Obj([k \in {"a"} |-> Null])}
WallsValues == {List(s) : s \in SeqsUpTo(WallEntries, MaxWalls)} \cup NonLists
RoomsValues == {List(s) : s \in SeqsUpTo(RoomEntries, MaxRooms)} \cup NonLists

Absent == [t |-> "absent"]
MkData(w, r) ==
    Obj([k \in (IF w = Absent THEN {} ELSE {"walls"}) \cup (IF r = Absent THEN {} ELSE {"rooms"}) |->
           IF k = "walls" THEN w ELSE r])

ParsedObjects ==
    {MkData(w, r) : w \in WallsValues \cup {Absent}, r \in RoomsValues \cup {Absent}}
    \cup {Null, Num(F(16)), Str(s_bed), List(<<>>), Bool(TRUE)}

(***************************************************************************)
(* clean_json_response (src/ai/ai_v3.py:184-200)                           *)
(***************************************************************************)
\* The characters \s matches and str.strip() strips.
Whitespace == {" ", "\n"}
\* A TLA+ string cannot hold the backquote character: the model writes it "^".
BQ == "^"
s_fence == <<BQ, BQ, BQ>>
s_fence_json == <<BQ, BQ, BQ, "j", "s", "o", "n">>

\* text[i-1:] starts with lit (i is 1-based)
StartsWithAt(text, i, lit) ==
    /\ i + Len(lit) - 1 <= Len(text)
    /\ \A k \in 1..Len(lit) : text[i + k - 1] = lit[k]

\* The length of the run of whitespace that starts at position i: what a
\* greedy \s* consumes there.
RECURSIVE SpaceRun(_, _)
SpaceRun(text, i) ==
    IF i <= Len(text) /\ text[i] \in Whitespace THEN 1 + SpaceRun(text, i + 1) ELSE 0

\* re.sub(r'^^^json\s*|\s*^^^', '', text), scanning from position i: at each
\* position the first alternative is tried, then the second (a greedy \s* can
\* only be followed by ^^^ at the end of the whole run); a character no match
\* starts at is kept.
RECURSIVE SubFenceJson(_, _)
SubFenceJson(text, i) ==
    IF i > Len(text) THEN <<>>
    ELSE IF StartsWithAt(text, i, s_fence_json)
         THEN SubFenceJson(text, i + 7 + SpaceRun(text, i + 7))
    ELSE IF StartsWithAt(text, i + SpaceRun(text, i), s_fence)
         THEN SubFenceJson(text, i + SpaceRun(text, i) + 3)
    ELSE <<text[i]>> \o SubFenceJson(text, i + 1)

\* re.sub(r'^^^\s*', '', text), scanning from position i
RECURSIVE SubFence(_, _)
SubFence(text, i) ==
    IF i > Len(text) THEN <<>>
    ELSE IF StartsWithAt(text, i, s_fence)
         THEN SubFence(text, i + 3 + SpaceRun(text, i + 3))
    ELSE <<text[i]>> \o SubFence(text, i + 1)

\* text.strip()
RECURSIVE Strip(_)
Strip(text) ==
    IF text = <<>> THEN text
    ELSE IF Head(text) \in Whitespace THEN Strip(Tail(text))
    ELSE IF text[Len(text)] \in Whitespace THEN Strip(SubSeq(text, 1, Len(text) - 1))
    ELSE text

Positions(text, ch) == {i \in 1..Len(text) : text[i] = ch}
Min(S) == CHOOSE m \in S : \A n \in S : m <= n
Max(S) == CHOOSE m \in S : \A n \in S : m >= n
\* text.find(ch), text.rfind(ch): 0-based, -1 when ch does not occur
Find(text, ch) == IF Positions(text, ch) = {} THEN -1 ELSE Min(Positions(text, ch)) - 1
RFind(text, ch) == IF Positions(text, ch) = {} THEN -1 ELSE Max(Positions(text, ch)) - 1

\* text[lo:hi] for 0 <= lo, 0 <= hi
Slice(text, lo, hi) == SubSeq(text, lo + 1, IF hi > Len(text) THEN Len(text) ELSE hi)

\* A variant that leaves the last brace out: response_text[first_brace:last_brace]
SliceShort(text, first_brace, last_brace) == Slice(text, first_brace, last_brace)

\* response_text[first_brace:last_brace + 1]
BraceSlice(text, first_brace, last_brace) == Slice(text, first_brace, last_brace + 1)

clean_json_response(text) ==
    LET t1 == SubFenceJson(text, 1)
        t2 == SubFence(t1, 1)
        t3 == Strip(t2)
        first_brace == Find(t3, "{")
        last_brace == RFind(t3, "}")
    IN IF first_brace # -1 /\ last_brace # -1
       THEN BraceSlice(t3, first_brace, last_brace)
       ELSE t3

(***************************************************************************)
(* Inputs of clean_json_response: texts made of a few segments, each a     *)
(* fence marker, a character of prose, whitespace, a brace or a backquote. *)
(***************************************************************************)
Segments == {s_fence, s_fence_json, <<" ">>, <<"\n">>, <<"x">>, <<"{">>, <<"}">>, <<BQ>>}

RECURSIVE Concat(_)
Concat(segs) == IF segs = <<>> THEN <<>> ELSE Head(segs) \o Concat(Tail(segs))

Texts == {Concat(segs) : segs \in SeqsUpTo(Segments, MaxSegments)}

CInit ==
    /\ cText \in Texts
    /\ cOut = <<>>
    /\ cPc = "ready"

Clean ==
    /\ cPc = "ready"
    /\ cOut' = clean_json_response(cText)
    /\ cPc' = "cleaned"
    /\ UNCHANGED cText
    /\ UNCHANGED cOthers

(***************************************************************************)
(* detect_close_parallel_walls (src/ai/ai_v3.py:304-341)                   *)
(***************************************************************************)
\* threshold: float = 10.0, and the parallel threshold 1.0, in sixteenths
DefaultThreshold == 160
ParallelThreshold == 16

\* wall[pointKey][axis]
Coord(wall, pointKey, axis) == wall.fields[pointKey].fields[axis].f

\* abs(dx1 * dy2 - dy1 * dx2)
CrossOf(wall1, wall2) ==
    LET dx1 == FSub(Coord(wall1, "end_point", "x"), Coord(wall1, "start_point", "x"))
        dy1 == FSub(Coord(wall1, "end_point", "y"), Coord(wall1, "start_point", "y"))
        dx2 == FSub(Coord(wall2, "end_point", "x"), Coord(wall2, "start_point", "x"))
        dy2 == FSub(Coord(wall2, "end_point", "y"), Coord(wall2, "start_point", "y"))
    IN FAbs(FSub(FMul(dx1, dy2), FMul(dy1, dx2)))

\* (wall['start_point'][axis] + wall['end_point'][axis]) / 2
Mid(wall, axis) == FHalf(FAdd(Coord(wall, "start_point", axis), Coord(wall, "end_point", axis)))

\* ((mid1_x - mid2_x) ** 2 + (mid1_y - mid2_y) ** 2) ** 0.5
MidDistance(wall1, wall2) ==
    LET sx == FPow2(FSub(Mid(wall1, "x"), Mid(wall2, "x")))
        sy == FPow2(FSub(Mid(wall1, "y"), Mid(wall2, "y")))
    IN IF ~sx.ok THEN sx
       ELSE IF ~sy.ok THEN sy
       ELSE Ok(FSqrt(FAdd(sx.val, sy.val)))

\* A variant with the distance threshold in place of 1.0: cross < 100.0
IsParallelLoose(cross) == FLt(cross, F(1600))

\* cross < 1.0
IsParallel(cross) == FLt(cross, F(ParallelThreshold))

\* The body of the inner loop for one pair: the tuples it appends.
PairStep(wall1, wall2, threshold) ==
    IF ~IsParallel(CrossOf(wall1, wall2)) THEN Ok(<<>>)
    ELSE LET dist == MidDistance(wall1, wall2)
         IN IF ~dist.ok THEN dist
            ELSE IF FLt(dist.val, threshold)
                 THEN Ok(<<<<wall1.fields["wall_id"], wall2.fields["wall_id"], dist.val>>>>)
                 ELSE Ok(<<>>)

\* The nested loops from the pair (i, j) on, appending to close_pairs.
RECURSIVE PairLoop(_, _, _, _, _)
PairLoop(walls, i, j, threshold, close_pairs) ==
    IF i > Len(walls) THEN Ok(close_pairs)
    ELSE IF j > Len(walls) THEN PairLoop(walls, i + 1, i + 2, threshold, close_pairs)
    ELSE LET step == PairStep(walls[i], walls[j], threshold)
         IN IF ~step.ok THEN step
            ELSE PairLoop(walls, i, j + 1, threshold, close_pairs \o step.val)

detect_close_parallel_walls(walls, threshold) == PairLoop(walls, 1, 2, threshold, <<>>)

(***************************************************************************)
(* Inputs of detect_close_parallel_walls: validated walls, each a start    *)
(* point and a direction, in sixteenths.  8000 (500.0) is large enough for *)
(* its square to pass FloatMax.                                            *)
(***************************************************************************)
DStarts == {<<0, 0>>, <<0, 8>>, <<0, 320>>, <<8000, 0>>}
DDirs == {<<0, 0>>, <<8, 0>>, <<0, 8>>, <<320, 0>>, <<16, 48>>, <<8000, 8000>>}

MkWall(id, s, e) ==
    Obj([k \in {"wall_id", "start_point", "end_point"} |->
           CASE k = "wall_id" -> id
             [] k = "start_point" -> Pt(Num(F(s[1])), Num(F(s[2])))
             [] OTHER -> Pt(Num(F(e[1])), Num(F(e[2])))])

DSegments == {<<s, <<s[1] + d[1], s[2] + d[2]>> >> : s \in DStarts, d \in DDirs}

DetectInputs ==
    {[i \in 1..Len(segs) |-> MkWall(WallName(i), segs[i][1], segs[i][2])] :
        segs \in SeqsUpTo(DSegments, MaxDetectWalls)}

DInit ==
    /\ dWalls \in DetectInputs
    /\ dOut = None
    /\ dPc = "ready"

Detect ==
    /\ dPc = "ready"
    /\ dOut' = detect_close_parallel_walls(dWalls, F(DefaultThreshold))
    /\ dPc' = "detected"
    /\ UNCHANGED dWalls
    /\ UNCHANGED dOthers

(***************************************************************************)
(* json.loads on the texts of the model.  The member text of a document   *)
(* (what stands between the outer braces of a JSON object) and the text of *)
(* a top-level value that is no object are single elements of a text:      *)
(* DocToken(n) and ValueToken(n).  They hold no backquote and no brace     *)
(* outside the span they are placed in, so the scans of clean_json_response*)
(* pass over them.                                                         *)
(***************************************************************************)
FarApartWalls ==
    <<MkWall(WallName(1), <<0, 0>>, <<0, 0>>), MkWall(WallName(2), <<8000, 0>>, <<8000, 0>>)>>
TwinWalls ==
    <<MkWall(WallName(1), <<0, 8>>, <<320, 8>>), MkWall(WallName(2), <<0, 8>>, <<320, 8>>)>>

Documents ==
    << MkData(List(TwinWalls), List(<<Obj([k \in {"room_name"} |-> Str(s_bed)])>>)),
       MkData(List(FarApartWalls), Absent),
       MkData(Null, List(<<>>)),
       MkData(List(<<Obj([k \in {"start_point"} |-> OnlyX(Str(<<"a">>))])>>), Absent),
       MkData(Absent, List(<<Obj([k \in {"room_name"} |-> Null])>>)) >>

TopValues == <<Null, List(<<>>), Str(s_bed)>>

\* The text elements that stand for Documents[n] and TopValues[n].
DocTokens == <<"<members 1>", "<members 2>", "<members 3>", "<members 4>", "<members 5>">>
ValueTokens == <<"null", "[]", "<string>">>
IndexIn(seq, x) == CHOOSE n \in 1..Len(seq) : seq[n] = x
Occurs(seq, x) == \E n \in 1..Len(seq) : seq[n] = x

\* json.loads(text): whitespace may surround the value and, in an object, the
\* members; everything else the model's texts can hold is no JSON.
ParseJson(text) ==
    LET body == Strip(text)
        inner == IF Len(body) >= 2 THEN Strip(SubSeq(body, 2, Len(body) - 1)) ELSE <<>>
        braced == Len(body) >= 2 /\ body[1] = "{" /\ body[Len(body)] = "}"
    IN CASE Len(body) = 1 /\ Occurs(ValueTokens, body[1])
              -> Ok(TopValues[IndexIn(ValueTokens, body[1])])
         [] braced /\ inner = <<>> -> Ok(EmptyDict)
         [] braced /\ Len(inner) = 1 /\ Occurs(DocTokens, inner[1])
              -> Ok(Documents[IndexIn(DocTokens, inner[1])])
         [] OTHER -> Raise("JSONDecodeError")

(***************************************************************************)
(* floorplan_png_to_json (src/ai/ai_v3.py:10-181)                          *)
(***************************************************************************)
NoValue == [t |-> "none"]
s_key == <<"s", "k">>

\* bool(x) of an Optional[str]
Truthy(x) == x.t = "str" /\ x.s # <<>>

\* The degraded model of lines 160-165
ParseErrorModel(text) ==
    Obj([k \in {"walls", "rooms", "error", "raw_response"} |->
           CASE k = "walls" -> List(<<>>)
             [] k = "rooms" -> List(<<>>)
             [] k = "error" -> Str(<<"Failed to parse response: ", "JSONDecodeError">>)
             [] OTHER -> Str(text)])

\* The degraded model of lines 168-172
ApiErrorModel(e) ==
    Obj([k \in {"walls", "rooms", "error"} |->
           CASE k = "walls" -> List(<<>>)
             [] k = "rooms" -> List(<<>>)
             [] OTHER -> Str(<<"API error: ", e>>)])

\* print_summary(data), lines 262-301: it prints, and raises what
\* detect_close_parallel_walls raises.
print_summary(data) ==
    LET walls == Get(data, "walls", List(<<>>))
    IN detect_close_parallel_walls(walls.items, F(DefaultThreshold))

\* What the vision model may answer: a body, with or without a fence or prose
\* around it.
Prefixes == {<<>>, s_fence_json \o <<"\n">>, <<"x", " ">>}
Suffixes == {<<>>, <<"\n">> \o s_fence, <<" ", "x">>}
Bodies ==
    {<<"{", DocTokens[n], "}">> : n \in 1..Len(DocTokens)}
    \cup {<<ValueTokens[n]>> : n \in 1..Len(ValueTokens)}
    \cup { <<"{", "}">>, <<"{", " ", "}">>, <<"x">>, <<"x", " ", "x">>, <<"{", "x">>,
           <<"{", "}", " ", "{", "}">>, <<"{", "x", " ">> \o s_fence \o <<"x", "}">> }
Responses == {p \o b \o q : p \in Prefixes, b \in Bodies, q \in Suffixes}

CallErrors == {"APIConnectionError", "IndexError"}

OInit ==
    /\ api_key \in {Null, Str(<<>>), Str(s_key)}
    /\ env_key \in {Null, Str(<<>>), Str(s_key)}
    /\ png_exists \in BOOLEAN
    /\ output_path \in {Null, Str(<<"o">>)}
    /\ oCalls = 0
    /\ oRaw = <<>>
    /\ response_text = <<>>
    /\ result = NoValue
    /\ oFailure = "none"
    /\ oSaved = NoValue
    /\ oExc = "none"
    /\ oPc = "credential"

\* Lines 24-31
CheckCredential ==
    /\ oPc = "credential"
    /\ LET key == IF Truthy(api_key) THEN api_key ELSE env_key
       IN /\ api_key' = key
          /\ IF ~Truthy(key)
             THEN oPc' = "raised" /\ oExc' = "ValueError"
             ELSE oPc' = "input_file" /\ oExc' = oExc
    /\ UNCHANGED <<env_key, png_exists, output_path, oCalls, oRaw, response_text,
                   result, oFailure, oSaved>>
    /\ UNCHANGED oOthers

\* A variant without the existence test of lines 34-35
SkipInputFileCheck ==
    /\ oPc = "input_file"
    /\ oPc' = "call"
    /\ UNCHANGED <<api_key, env_key, png_exists, output_path, oCalls, oRaw,
                   response_text, result, oFailure, oSaved, oExc>>
    /\ UNCHANGED oOthers

\* Lines 34-42: the existence test, then the image is read and the client made.
CheckInputFile ==
    /\ oPc = "input_file"
    /\ IF ~png_exists
       THEN oPc' = "raised" /\ oExc' = "FileNotFoundError"
       ELSE oPc' = "call" /\ oExc' = oExc
    /\ UNCHANGED <<api_key, env_key, png_exists, output_path, oCalls, oRaw,
                   response_text, result, oFailure, oSaved>>
    /\ UNCHANGED oOthers

\* Lines 121-146: the vision model answers with a text.
CallReturns ==
    /\ oPc = "call"
    /\ oCalls' = oCalls + 1
    /\ \E text \in Responses : oRaw' = text /\ response_text' = text
    /\ oPc' = "clean"
    /\ UNCHANGED <<api_key, env_key, png_exists, output_path, result, oFailure,
                   oSaved, oExc>>
    /\ UNCHANGED oOthers

\* Lines 121-146 raise, and the handler of lines 166-172 runs.
CallFails ==
    /\ oPc = "call"
    /\ oCalls' = oCalls + 1
    /\ \E e \in CallErrors : result' = ApiErrorModel(e)
    /\ oFailure' = "call"
    /\ oPc' = "save"
    /\ UNCHANGED <<api_key, env_key, png_exists, output_path, oRaw, response_text,
                   oSaved, oExc>>
    /\ UNCHANGED oOthers

\* Line 149
CleanResponse ==
    /\ oPc = "clean"
    /\ response_text' = clean_json_response(response_text)
    /\ oPc' = "parse"
    /\ UNCHANGED <<api_key, env_key, png_exists, output_path, oCalls, oRaw, result,
                   oFailure, oSaved, oExc>>
    /\ UNCHANGED oOthers

\* Line 152, and on JSONDecodeError the handler of lines 157-165
ParseResponse ==
    /\ oPc = "parse"
    /\ LET parsed == ParseJson(response_text)
       IN IF parsed.ok
          THEN result' = parsed.val /\ oFailure' = oFailure /\ oPc' = "validate"
          ELSE /\ result' = ParseErrorModel(response_text)
               /\ oFailure' = "parse"
               /\ oPc' = "save"
    /\ UNCHANGED <<api_key, env_key, png_exists, output_path, oCalls, oRaw,
                   response_text, oSaved, oExc>>
    /\ UNCHANGED oOthers

\* Line 155, and on any exception the handler of lines 166-172
ValidateResult ==
    /\ oPc = "validate"
    /\ LET validated == validate_and_fix_structure(result).out
       IN IF validated.ok
          THEN result' = validated.val /\ oFailure' = oFailure
          ELSE result' = ApiErrorModel(validated.exc) /\ oFailure' = "validate"
    /\ oPc' = "save"
    /\ UNCHANGED <<api_key, env_key, png_exists, output_path, oCalls, oRaw,
                   response_text, oSaved, oExc>>
    /\ UNCHANGED oOthers

\* Lines 175-176: save_json_output writes the file, or fails and only prints.
SaveOutput ==
    /\ oPc = "save"
    /\ IF Truthy(output_path)
       THEN oSaved' \in {result, oSaved}
       ELSE oSaved' = oSaved
    /\ oPc' = "summary"
    /\ UNCHANGED <<api_key, env_key, png_exists, output_path, oCalls, oRaw,
                   response_text, result, oFailure, oExc>>
    /\ UNCHANGED oOthers

\* Lines 179-181: print_summary is outside the try block.
SummariseAndReturn ==
    /\ oPc = "summary"
    /\ LET printed == print_summary(result)
       IN IF printed.ok
          THEN oPc' = "returned" /\ oExc' = oExc
          ELSE oPc' = "raised" /\ oExc' = printed.exc
    /\ UNCHANGED <<api_key, env_key, png_exists, output_path, oCalls, oRaw,
                   response_text, result, oFailure, oSaved>>
    /\ UNCHANGED oOthers

(***************************************************************************)
(* genplan.py: the wall-creation script run against a Revit document.      *)
(* Elevations are integers in units of 1e-7 ft; heights are floats.        *)
(***************************************************************************)
\* tol=1e-6 (line 93) and elevation_feet=0.0 (line 144), in units of 1e-7 ft
ElevationTolerance == 10
BaseElevation == 0
\* The instance height Wall.Create is given (line 167): 10.0
DefaultWallHeight == 160

Abs(n) == IF n < 0 THEN -n ELSE n

\* ElementId of the next element the document creates
NextElementId(d) ==
    LET ids == {l.id : l \in d.levels} \cup {w.id : w \in d.walls}
    IN IF ids = {} THEN 1 ELSE Max(ids) + 1

\* A variant of the lookup that never finds a level
FindNothing(d, elevation_feet) == {}

\* find_level_by_elevation: the levels the loop may return, none when it
\* returns None (the collector's order decides among several).
find_level_by_elevation(d, elevation_feet) ==
    {lvl \in d.levels : Abs(lvl.elevation - elevation_feet) < ElevationTolerance}

\* "Auto_Level_{:.2f}ft".format(elevation_feet), for elevation_feet >= 0
LevelName(elevation_feet) ==
    LET cents == (elevation_feet + 50000) \div 100000
    IN <<"Auto_Level_">> \o IntToStr(cents \div 100) \o <<".">>
       \o IntToStr((cents % 100) \div 10) \o IntToStr(cents % 10) \o <<"ft">>

\* Level.Create(doc, elevation_feet) and the assignment of its Name
NewLevel(d, elevation_feet) ==
    [id |-> NextElementId(d), elevation |-> elevation_feet, name |-> LevelName(elevation_feet)]

\* A variant that ignores the preferred name
FirstWallType(types, preferred_name) ==
    IF types = <<>> THEN Raise("RuntimeError") ELSE Ok(types[1])

\* pick_wall_type(doc, preferred_name): the outcome; types is list(collector),
\* each type written as its Name
pick_wall_type(types, preferred_name) ==
    IF types = <<>> THEN Raise("RuntimeError")
    ELSE IF Truthy(preferred_name) /\ \E n \in 1..Len(types) : types[n] = preferred_name
         THEN Ok(preferred_name)
    ELSE Ok(types[1])

\* "not x" of a JSON value
Falsy(x) ==
    CASE x.t = "null" -> TRUE
      [] x.t = "bool" -> ~x.b
      [] x.t = "num" -> x.f = F(0)
      [] x.t = "str" -> x.s = <<>>
      [] x.t = "list" -> x.items = <<>>
      [] x.t = "obj" -> x.fields = <<>>
      [] OTHER -> FALSE

\* float(p[n]) for n = 0, 1 (written 1, 2)
ItemToFloat(p, n) ==
    CASE p.t = "list" -> IF n <= Len(p.items) THEN ToFloat(p.items[n]) ELSE Raise("IndexError")
      [] p.t = "str" -> IF n <= Len(p.s) THEN ToFloat(Str(<<p.s[n]>>)) ELSE Raise("IndexError")
      [] p.t = "obj" -> Raise("KeyError")
      [] OTHER -> Raise("TypeError")

\* Lines 156-157: the four conversions, in order; the first failure is raised.
EndpointsOf(start, end) ==
    LET x1 == ItemToFloat(start, 1)
        y1 == ItemToFloat(start, 2)
        x2 == ItemToFloat(end, 1)
        y2 == ItemToFloat(end, 2)
    IN IF ~x1.ok THEN x1
       ELSE IF ~y1.ok THEN y1
       ELSE IF ~x2.ok THEN x2
       ELSE IF ~y2.ok THEN y2
       ELSE Ok(<<x1.val, y1.val, x2.val, y2.val>>)

\* What one pass of the loop body does with the entry w, before the host is
\* asked for anything: "skip", "create", or the exception it raises.
WallPlan(w) ==
    IF ~IsDict(w) THEN Raise("AttributeError")
    ELSE LET start == Get(w, "start", Null)
             end == Get(w, "end", Null)
         IN IF Falsy(start) \/ Falsy(end) THEN Ok("skip")
            ELSE LET pts == EndpointsOf(start, end)
                 IN IF ~pts.ok THEN pts ELSE Ok("create")

\* w.get("id", "wall")
SidOf(w) == Get(w, "id", Str(<<"w", "a", "l", "l">>))

(***************************************************************************)
(* Inputs of the script.                                                   *)
(***************************************************************************)
XY(x, y) == List(<<Num(F(x)), Num(F(y))>>)
s_w1 == <<"w", "1">>
s_w2 == <<"w", "2">>

SegmentEntries ==
    { Obj([k \in {"id", "start", "end"} |->
             CASE k = "id" -> Str(s_w1) [] k = "start" -> XY(0, 0) [] OTHER -> XY(384, 0)]),
      Obj([k \in {"start", "end"} |->
             IF k = "start" THEN XY(384, 0) ELSE XY(384, 320)]),
      Obj([k \in {"id", "start"} |->
             IF k = "id" THEN Str(s_w2) ELSE XY(384, 0)]),
      Obj([k \in {"id", "start", "end"} |->
             CASE k = "id" -> Str(s_w2)
               [] k = "start" -> List(<<Str(<<"a">>), Num(F(0))>>)
               [] OTHER -> XY(0, 320)]) }

SegmentLists == SeqsUpTo(SegmentEntries, MaxSegmentsPerRun)

Level(id, elevation) == [id |-> id, elevation |-> elevation, name |-> <<"L">>]
InitialLevels == {{}, {Level(1, 9)}, {Level(1, 10)}}

NoName == Null
HostSetups ==
    { [types |-> <<>>, preferred |-> NoName, height |-> NoValue, param |-> TRUE],
      [types |-> <<Str(<<"Generic">>)>>, preferred |-> NoName, height |-> Num(F(320)), param |-> TRUE],
      [types |-> <<Str(<<"Generic">>), Str(<<"Brick">>)>>, preferred |-> Str(<<"Brick">>),
       height |-> Num(F(320)), param |-> FALSE],
      [types |-> <<Str(<<"Generic">>), Str(<<"Brick">>)>>, preferred |-> Str(<<"Stone">>),
       height |-> NoValue, param |-> TRUE] }

GInit ==
    /\ \E levels \in InitialLevels :
          /\ doc = [levels |-> levels, walls |-> {}]
          /\ gSnapshot = [levels |-> levels, walls |-> {}]
          /\ gInitLevels = levels
    /\ \E setup \in HostSetups :
          /\ wall_types = setup.types
          /\ WALL_TYPE_NAME = setup.preferred
          /\ height_ft = setup.height
          /\ heightParam = setup.param
    /\ gWalls = <<>>
    /\ gIndex = 1
    /\ created = <<>>
    /\ base_level = NoValue
    /\ wall_type = NoValue
    /\ txn = "none"
    /\ tLog = <<>>
    /\ gExc = "none"
    /\ gRuns = 0
    /\ gCommitted = 0
    /\ gPc = "idle"

gHost == <<wall_types, WALL_TYPE_NAME, height_ft, heightParam, gInitLevels>>

\* Lines 90-140: the script starts: data is parsed, t = Transaction(doc, ...)
\* and t.Start().
StartTransaction ==
    /\ gPc \in {"idle", "done", "raised"}
    /\ gRuns < MaxRuns
    /\ gRuns' = gRuns + 1
    /\ gWalls' \in SegmentLists
    /\ gIndex' = 1
    /\ created' = <<>>
    /\ base_level' = NoValue
    /\ wall_type' = NoValue
    /\ txn' = "started"
    /\ tLog' = <<"Start">>
    /\ gSnapshot' = doc
    /\ gExc' = "none"
    /\ gPc' = "level"
    /\ UNCHANGED <<doc, gCommitted, gHost>>
    /\ UNCHANGED gOthers

\* t.RollBack(): the document is again what it was at t.Start()
RollBack == doc' = gSnapshot /\ txn' = "rolled_back" /\ tLog' = Append(tLog, "RollBack")

\* The handler of lines 205-207 for the exception e
Handle(e) == RollBack /\ gExc' = e /\ gPc' = "raised"

\* Line 144: get_or_create_base_level(doc, elevation_feet=0.0)
GetOrCreateBaseLevel ==
    /\ gPc = "level"
    /\ LET found == find_level_by_elevation(doc, BaseElevation)
       IN IF found # {}
          THEN /\ \E lvl \in found : base_level' = lvl
               /\ doc' = doc
          ELSE /\ base_level' = NewLevel(doc, BaseElevation)
               /\ doc' = [doc EXCEPT !.levels = @ \cup {NewLevel(doc, BaseElevation)}]
    /\ gPc' = "wall_type"
    /\ UNCHANGED <<gWalls, gIndex, created, wall_type, txn, tLog, gSnapshot, gExc, gRuns,
                   gCommitted, gHost>>
    /\ UNCHANGED gOthers

\* Level.Create or the naming of the level raises in the host (lines 106-107),
\* and the handler rolls back and re-raises.
HostRejectsLevel ==
    /\ gPc = "level"
    /\ find_level_by_elevation(doc, BaseElevation) = {}
    /\ Handle("HostException")
    /\ UNCHANGED <<gWalls, gIndex, created, base_level, wall_type, gSnapshot, gRuns,
                   gCommitted, gHost>>
    /\ UNCHANGED gOthers

\* Line 145: pick_wall_type(doc, WALL_TYPE_NAME); a RuntimeError goes to the
\* handler.
PickWallType ==
    /\ gPc = "wall_type"
    /\ LET picked == pick_wall_type(wall_types, WALL_TYPE_NAME)
       IN IF picked.ok
          THEN /\ wall_type' = picked.val
               /\ gPc' = "loop"
               /\ UNCHANGED <<doc, txn, tLog, gExc>>
          ELSE /\ Handle(picked.exc)
               /\ UNCHANGED wall_type
    /\ UNCHANGED <<gWalls, gIndex, created, base_level, gSnapshot, gRuns, gCommitted, gHost>>
    /\ UNCHANGED gOthers

\* A variant in which an entry without a start or an end aborts the run
SkipAborts ==
    /\ gPc = "loop"
    /\ gIndex <= Len(gWalls)
    /\ WallPlan(gWalls[gIndex]) = Ok("skip")
    /\ Handle("ValueError")
    /\ UNCHANGED <<gWalls, gIndex, created, base_level, wall_type, gSnapshot, gRuns,
                   gCommitted, gHost>>
    /\ UNCHANGED gOthers

\* Lines 148-154: an entry without a start or an end is skipped.
SkipWall ==
    /\ gPc = "loop"
    /\ gIndex <= Len(gWalls)
    /\ WallPlan(gWalls[gIndex]) = Ok("skip")
    /\ gIndex' = gIndex + 1
    /\ UNCHANGED <<doc, gWalls, created, base_level, wall_type, txn, tLog, gSnapshot, gExc,
                   gRuns, gCommitted, gPc, gHost>>
    /\ UNCHANGED gOthers

\* Lines 156-194: the wall is created; its height is set when a height was
\* given and the host takes the parameter (a failure there is swallowed).
CreateWall ==
    /\ gPc = "loop"
    /\ gIndex <= Len(gWalls)
    /\ WallPlan(gWalls[gIndex]) = Ok("create")
    /\ LET new_wall == [id |-> NextElementId(doc),
                        type |-> wall_type,
                        level |-> base_level.id,
                        height |-> IF height_ft # NoValue /\ heightParam
                                   THEN height_ft.f
                                   ELSE F(DefaultWallHeight)]
       IN /\ doc' = [doc EXCEPT !.walls = @ \cup {new_wall}]
          /\ created' = Append(created, <<SidOf(gWalls[gIndex]), new_wall.id>>)
    /\ gIndex' = gIndex + 1
    /\ UNCHANGED <<gWalls, base_level, wall_type, txn, tLog, gSnapshot, gExc, gRuns,
                   gCommitted, gPc, gHost>>
    /\ UNCHANGED gOthers

\* A variant of the handler that re-raises without t.RollBack()
FailWithoutRollBack ==
    /\ gPc = "loop"
    /\ gIndex <= Len(gWalls)
    /\ LET plan == WallPlan(gWalls[gIndex])
       IN /\ ~plan.ok
          /\ gExc' = plan.exc /\ gPc' = "raised" /\ txn' = "rolled_back"
          /\ tLog' = Append(tLog, "RollBack")
    /\ UNCHANGED <<doc, gWalls, gIndex, created, base_level, wall_type, gSnapshot, gRuns,
                   gCommitted, gHost>>
    /\ UNCHANGED gOthers

\* Lines 149-167 raise in the script (a conversion fails) and the handler
\* of lines 205-207 rolls back and re-raises.
WallFails ==
    /\ gPc = "loop"
    /\ gIndex <= Len(gWalls)
    /\ LET plan == WallPlan(gWalls[gIndex])
       IN /\ ~plan.ok
          /\ Handle(plan.exc)
    /\ UNCHANGED <<gWalls, gIndex, created, base_level, wall_type, gSnapshot, gRuns,
                   gCommitted, gHost>>
    /\ UNCHANGED gOthers

\* Line.CreateBound or Wall.Create raises in the host (lines 163-167), and
\* the handler rolls back and re-raises.
HostRejectsWall ==
    /\ gPc = "loop"
    /\ gIndex <= Len(gWalls)
    /\ WallPlan(gWalls[gIndex]) = Ok("create")
    /\ Handle("HostException")
    /\ UNCHANGED <<gWalls, gIndex, created, base_level, wall_type, gSnapshot, gRuns,
                   gCommitted, gHost>>
    /\ UNCHANGED gOthers

\* A variant in which the script ends after the loop without t.Commit()
ReturnWithoutCommit ==
    /\ gPc = "loop"
    /\ gIndex > Len(gWalls)
    /\ gCommitted' = gCommitted + 1
    /\ gPc' = "done"
    /\ UNCHANGED <<doc, gWalls, gIndex, created, base_level, wall_type, txn, tLog, gSnapshot,
                   gExc, gRuns, gHost>>
    /\ UNCHANGED gOthers

\* Lines 196-203: t.Commit(), the count is printed and shown.
Commit ==
    /\ gPc = "loop"
    /\ gIndex > Len(gWalls)
    /\ txn' = "committed"
    /\ tLog' = Append(tLog, "Commit")
    /\ gCommitted' = gCommitted + 1
    /\ gPc' = "done"
    /\ UNCHANGED <<doc, gWalls, gIndex, created, base_level, wall_type, gSnapshot, gExc,
                   gRuns, gHost>>
    /\ UNCHANGED gOthers

(***************************************************************************)
(* The validator applied to a parsed object, then to its own result.       *)
(***************************************************************************)
VStart ==
    /\ vData \in ParsedObjects
    /\ vGiven = vData
    /\ vOut = None
    /\ vOut2 = None
    /\ vPc = "ready"

Validate ==
    /\ vPc = "ready"
    /\ LET r == validate_and_fix_structure(vData)
       IN /\ vOut' = r.out
          /\ vData' = r.data
    /\ vPc' = "validated"
    /\ UNCHANGED <<vGiven, vOut2>>
    /\ UNCHANGED vOthers

Revalidate ==
    /\ vPc = "validated"
    /\ vOut.ok
    /\ vOut2' = validate_and_fix_structure(vOut.val).out
    /\ vPc' = "revalidated"
    /\ UNCHANGED <<vData, vGiven, vOut>>
    /\ UNCHANGED vOthers

VIdle == vData = Null /\ vGiven = Null /\ vOut = None /\ vOut2 = None /\ vPc = "off"
CIdle == cText = <<>> /\ cOut = <<>> /\ cPc = "off"

DIdle == dWalls = <<>> /\ dOut = None /\ dPc = "off"
OIdle ==
    /\ api_key = Null /\ env_key = Null /\ png_exists = FALSE /\ output_path = Null
    /\ oCalls = 0 /\ oRaw = <<>> /\ response_text = <<>> /\ result = NoValue
    /\ oFailure = "none" /\ oSaved = NoValue /\ oExc = "none" /\ oPc = "off"
GIdle ==
    /\ doc = [levels |-> {}, walls |-> {}] /\ gSnapshot = [levels |-> {}, walls |-> {}]
    /\ wall_types = <<>> /\ WALL_TYPE_NAME = Null /\ height_ft = NoValue
    /\ heightParam = FALSE /\ gWalls = <<>> /\ gIndex = 1 /\ created = <<>>
    /\ base_level = NoValue /\ wall_type = NoValue /\ txn = "none" /\ tLog = <<>>
    /\ gExc = "none"
    /\ gRuns = 0 /\ gCommitted = 0 /\ gInitLevels = {} /\ gPc = "off"

(***************************************************************************)
(* Specifications, one per component.                                      *)
(***************************************************************************)
\* validate_and_fix_structure on a parsed object, then on its own result
VInit == VStart /\ CIdle /\ DIdle /\ OIdle /\ GIdle
VNext == Validate \/ Revalidate
SpecValidate == VInit /\ [][VNext]_vars

\* clean_json_response on a text
CleanInit == CInit /\ VIdle /\ DIdle /\ OIdle /\ GIdle
CleanNext == Clean
SpecClean == CleanInit /\ [][CleanNext]_vars

\* detect_close_parallel_walls on a list of validated walls
DetectInit == DInit /\ VIdle /\ CIdle /\ OIdle /\ GIdle
DetectNext == Detect
SpecDetect == DetectInit /\ [][DetectNext]_vars

\* One call of floorplan_png_to_json
ExtractInit == OInit /\ VIdle /\ CIdle /\ DIdle /\ GIdle
ExtractNext ==
    \/ CheckCredential
    \/ CheckInputFile
    \/ CallReturns
    \/ CallFails
    \/ CleanResponse
    \/ ParseResponse
    \/ ValidateResult
    \/ SaveOutput
    \/ SummariseAndReturn
SpecExtract == ExtractInit /\ [][ExtractNext]_vars

\* Executions of genplan.py against one document
ReconstructInit == GInit /\ VIdle /\ CIdle /\ DIdle /\ OIdle
ReconstructNext ==
    \/ StartTransaction
    \/ GetOrCreateBaseLevel
    \/ HostRejectsLevel
    \/ PickWallType
    \/ SkipWall
    \/ CreateWall
    \/ WallFails
    \/ HostRejectsWall
    \/ Commit
SpecReconstruct == ReconstructInit /\ [][ReconstructNext]_vars

\* The whole development: any one of the components
Init == VInit \/ CleanInit \/ DetectInit \/ ExtractInit \/ ReconstructInit
Next == VNext \/ CleanNext \/ DetectNext \/ ExtractNext \/ ReconstructNext
Spec == Init /\ [][Next]_vars

(***************************************************************************)
(* The claims.                                                             *)
(***************************************************************************)
IsList(x) == x.t = "list"
Validated == vPc \in {"validated", "revalidated"}

\* C1: validate_and_fix_structure never fails, and for every object JSON
\* parsing can produce (a missing, null or non-list 'walls' or 'rooms', a
\* top-level value that is no object) it returns a model whose 'walls' and
\* 'rooms' are both present and are sequences.
C1_AlwaysBothSequences ==
    Validated =>
        /\ vOut.ok
        /\ IsDict(vOut.val)
        /\ Has(vOut.val, "walls") /\ IsList(vOut.val.fields["walls"])
        /\ Has(vOut.val, "rooms") /\ IsList(vOut.val.fields["rooms"])

\* The records among the entries of data[key]
RecordsOf(data, key) == SelectSeq(Get(data, key, List(<<>>)).items, IsDict)
PointIsDictOrMissing(rec, pointKey) == ~Has(rec, pointKey) \/ IsDict(rec.fields[pointKey])
\* An input in which nothing but coordinate sub-fields can be wrong
OnlyCoordinatesCanFail(data) ==
    /\ IsDict(data)
    /\ IsList(Get(data, "walls", List(<<>>)))
    /\ IsList(Get(data, "rooms", List(<<>>)))
    /\ \A n \in 1..Len(RecordsOf(data, "walls")) :
          /\ PointIsDictOrMissing(RecordsOf(data, "walls")[n], "start_point")
          /\ PointIsDictOrMissing(RecordsOf(data, "walls")[n], "end_point")
    /\ \A n \in 1..Len(RecordsOf(data, "rooms")) :
          /\ PointIsDictOrMissing(RecordsOf(data, "rooms")[n], "center_point")
          /\ Get(RecordsOf(data, "rooms")[n], "room_name", Str(s_UNKNOWN)).t = "str"
\* The coordinate the claim expects: the value when it converts, 0.0 when it
\* is missing or does not convert
AbsorbedCoord(rec, pointKey, axis) ==
    LET c == CoordOf(rec, pointKey, axis) IN IF c.ok THEN Num(c.val) ELSE Num(F(0))
AbsorbedIn(rec, out, pointKey) ==
    \A axis \in {"x", "y"} : out.fields[pointKey].fields[axis] = AbsorbedCoord(rec, pointKey, axis)

\* C2: a wall or room record whose coordinate sub-field is missing or cannot
\* be coerced to a float stays in the output with that coordinate 0.0, and
\* the error reaches neither the caller nor the other records.
C2_CoercionErrorsAbsorbed ==
    (Validated /\ OnlyCoordinatesCanFail(vData)) =>
        /\ vOut.ok
        /\ LET inW == RecordsOf(vData, "walls")
               outW == vOut.val.fields["walls"].items
               inR == RecordsOf(vData, "rooms")
               outR == vOut.val.fields["rooms"].items
           IN /\ Len(outW) = Len(inW)
              /\ Len(outR) = Len(inR)
              /\ \A n \in 1..Len(inW) :
                    AbsorbedIn(inW[n], outW[n], "start_point") /\ AbsorbedIn(inW[n], outW[n], "end_point")
              /\ \A n \in 1..Len(inR) : AbsorbedIn(inR[n], outR[n], "center_point")

\* C3: validation is idempotent: validating a model the validator returned
\* returns that model again (same walls, ids, names and coordinates).
C3_ValidationIdempotent ==
    vPc = "revalidated" => vOut2.ok /\ vOut2.val = vOut.val

\* A model that took a fallback id after a skipped entry and an upper-cased
\* room name has been validated a second time.
C3_Witness ==
    /\ vPc = "revalidated"
    /\ vOut2.ok
    /\ IsDict(vData)
    /\ IsList(vData.fields["walls"]) /\ IsList(vData.fields["rooms"])
    /\ Len(vData.fields["walls"].items) = 2
    /\ ~IsDict(vData.fields["walls"].items[1])
    /\ IsDict(vData.fields["walls"].items[2])
    /\ ~Has(vData.fields["walls"].items[2], "wall_id")
    /\ Len(vOut2.val.fields["walls"].items) = 1
    /\ vOut2.val.fields["walls"].items[1].fields["wall_id"] = WallName(2)
    /\ Len(vData.fields["rooms"].items) = 1
    /\ IsDict(vData.fields["rooms"].items[1])
    /\ Get(vData.fields["rooms"].items[1], "room_name", Null) = Str(s_Bed)
    /\ vOut2.val.fields["rooms"].items[1].fields["room_name"] = Str(s_BED)

\* There is a "{" with a "}" after it and no brace between them.
HasBalancedSpan(text) ==
    \E i, j \in 1..Len(text) :
        /\ i < j /\ text[i] = "{" /\ text[j] = "}"
        /\ \A k \in (i + 1)..(j - 1) : text[k] \notin {"{", "}"}
\* The text from its first "{" to its last "}"
BraceSpan(text) == SubSeq(text, Min(Positions(text, "{")), Max(Positions(text, "}")))
HasFence(text) == \E i \in 1..Len(text) : StartsWithAt(text, i, s_fence)

\* C4 as stated: for every input with a balanced {...} span, the result is
\* the input's substring from the first "{" to the last "}", unchanged.
C4_ReturnsInputSpan ==
    (cPc = "cleaned" /\ HasBalancedSpan(cText)) => cOut = BraceSpan(cText)

\* C4 as amended: the same, for inputs that hold no fence marker (three
\* backquotes) between the first "{" and the last "}".
C4_ReturnsFenceFreeSpan ==
    (cPc = "cleaned" /\ HasBalancedSpan(cText) /\ ~HasFence(BraceSpan(cText)))
        => cOut = BraceSpan(cText)

\* A fenced answer with text before the object has been cleaned.
C4_Witness ==
    /\ cPc = "cleaned"
    /\ HasBalancedSpan(cText)
    /\ ~HasFence(BraceSpan(cText))
    /\ StartsWithAt(cText, 1, s_fence_json)
    /\ cText[Len(cText)] # "}"
    /\ cOut = BraceSpan(cText)
    /\ Len(cOut) >= 2

IsDegraded(model) ==
    /\ IsDict(model)
    /\ Has(model, "walls") /\ model.fields["walls"] = List(<<>>)
    /\ Has(model, "rooms") /\ model.fields["rooms"] = List(<<>>)
    /\ Has(model, "error") /\ model.fields["error"].t = "str" /\ model.fields["error"].s # <<>>

\* C5: when the answer is still no JSON after normalization, the call returns
\* a degraded model (empty walls and rooms, a non-empty error) whose
\* raw_response is the text the vision model returned, verbatim.
C5_RawResponseVerbatim ==
    (oPc = "returned" /\ oFailure = "parse") =>
        /\ IsDegraded(result)
        /\ Has(result, "raw_response")
        /\ result.fields["raw_response"] = Str(oRaw)

KeyAvailable == Truthy(api_key) \/ Truthy(env_key)

\* C6: once the credential and the image file are there, the call always
\* returns a model and never raises, and every failure of the collaborator
\* call, of parsing or of validation ends in a degraded model.
C6_NeverRaisesPastPreconditions ==
    /\ (KeyAvailable /\ png_exists) => oPc # "raised"
    /\ (oPc = "returned" /\ oFailure # "none") => IsDegraded(result)

\* C7: a missing credential or a missing image file is raised to the caller
\* before any call to the vision model: no call is made, no model (degraded
\* or not) is built, saved or returned.
C7_PreconditionsBeforeAnyCall ==
    (~KeyAvailable \/ ~png_exists) =>
        /\ oCalls = 0
        /\ oPc \in {"credential", "input_file", "raised"}
        /\ result = NoValue /\ oSaved = NoValue
        /\ oPc = "raised" =>
              oExc = (IF ~KeyAvailable THEN "ValueError" ELSE "FileNotFoundError")

\* A call with a key and no image file has raised FileNotFoundError.
C7_Witness ==
    /\ KeyAvailable /\ ~png_exists
    /\ oPc = "raised" /\ oExc = "FileNotFoundError"
    /\ oCalls = 0

CreatedIds == {created[n][2] : n \in 1..Len(created)}

\* C8: reconstruction is all or nothing.  When an exception is raised at
\* the k-th segment the transaction is rolled back, the document holds
\* nothing the call created and the exception reaches the caller; when the
\* loop completes, the walls the call created are committed together.
C8_AllOrNothing ==
    /\ gPc = "raised" =>
          /\ txn = "rolled_back"
          /\ gExc # "none"
          /\ doc = gSnapshot
          /\ \A w \in doc.walls : w.id \notin CreatedIds
    /\ gPc = "done" =>
          /\ txn = "committed"
          /\ gExc = "none"
          /\ {w.id : w \in doc.walls \ gSnapshot.walls} = CreatedIds
          /\ Cardinality(CreatedIds) = Len(created)
          /\ gSnapshot.walls \subseteq doc.walls

\* The second of three segments raised after the first had been created.
C8_Witness ==
    /\ gPc = "raised"
    /\ Len(gWalls) = 3 /\ gIndex = 2
    /\ Len(created) = 1
    /\ gCommitted = 1 /\ gSnapshot.walls # {}
    /\ doc = gSnapshot

NearBase(lvl) == Abs(lvl.elevation - BaseElevation) < ElevationTolerance

\* C9: get_or_create_base_level creates a level only when the document has
\* none within 1e-6 of the target elevation and returns an existing one
\* otherwise; so, from a document without levels, any number of committed
\* runs leaves exactly one level, at elevation 0.
C9_BaseLevelIdempotent ==
    /\ gPc \in {"wall_type", "loop", "done"} =>
          IF \E lvl \in gSnapshot.levels : NearBase(lvl)
          THEN /\ doc.levels = gSnapshot.levels
               /\ base_level \in gSnapshot.levels /\ NearBase(base_level)
          ELSE /\ doc.levels = gSnapshot.levels \cup {base_level}
               /\ base_level \notin gSnapshot.levels
               /\ base_level.elevation = BaseElevation
    /\ (gInitLevels = {} /\ gCommitted >= 1) =>
          /\ Cardinality(doc.levels) = 1
          /\ \A lvl \in doc.levels : lvl.elevation = BaseElevation

\* Two runs have committed against a document that began without levels.
C9_Witness ==
    /\ gInitLevels = {}
    /\ gCommitted = 2 /\ gPc = "done"
    /\ Cardinality(doc.levels) = 1
    /\ Cardinality(doc.walls) >= 2

SameEndpoints(w1, w2) ==
    /\ w1.fields["start_point"] = w2.fields["start_point"]
    /\ w1.fields["end_point"] = w2.fields["end_point"]
Reported(out, w1, w2, dist) ==
    \E n \in 1..Len(out) : out[n] = <<w1.fields["wall_id"], w2.fields["wall_id"], dist>>
\* C10: in any wall list, two walls with identical start and end points are
\* reported as a close parallel pair with distance 0.0.
C10_TwinsReported ==
    dPc = "detected" =>
        \A i, j \in 1..Len(dWalls) :
            (i < j /\ SameEndpoints(dWalls[i], dWalls[j]))
                => dOut.ok /\ Reported(dOut.val, dWalls[i], dWalls[j], F(0))

\* The direction of a wall in sixteenths, and the exact cross product of two
\* directions in units of 1/256
DirOf(w, axis) == Coord(w, "end_point", axis).v - Coord(w, "start_point", axis).v
ExactCross(w1, w2) == Abs(DirOf(w1, "x") * DirOf(w2, "y") - DirOf(w1, "y") * DirOf(w2, "x"))
HasDirection(w) == DirOf(w, "x") # 0 \/ DirOf(w, "y") # 0

TypeNames == {wall_types[n] : n \in 1..Len(wall_types)}
PreferredExists == Truthy(WALL_TYPE_NAME) /\ WALL_TYPE_NAME \in TypeNames

\* C12: a preferred type name that names an existing wall type selects that
\* type; otherwise an existing wall type is the fallback; with no wall type
\* in the host the run fails, the error reaches the caller and the run
\* creates no wall.
C12_WallTypeResolution ==
    /\ gPc \in {"loop", "done"} =>
          /\ wall_types # <<>>
          /\ wall_type \in TypeNames
          /\ PreferredExists => wall_type = WALL_TYPE_NAME
          /\ ~PreferredExists => wall_type = wall_types[1]
          /\ \A w \in doc.walls \ gSnapshot.walls : w.type = wall_type
    /\ wall_types = <<>> =>
          /\ gPc \in {"idle", "level", "wall_type", "raised"}
          /\ created = <<>>
          /\ doc.walls = {}
          /\ gPc = "raised" => txn = "rolled_back" /\ doc = gSnapshot
          /\ (gPc = "raised" /\ base_level # NoValue) => gExc = "RuntimeError"

\* A run has committed a wall of the preferred type, which is not the first
\* type of the host.
C12_Witness ==
    /\ gPc = "done"
    /\ PreferredExists
    /\ WALL_TYPE_NAME # wall_types[1]
    /\ wall_type = WALL_TYPE_NAME
    /\ \E w \in doc.walls \ gSnapshot.walls : w.type = WALL_TYPE_NAME

IsPoint(p) == p.t = "list" /\ p.items # <<>>
HasBothEndpoints(w) ==
    /\ IsDict(w)
    /\ Has(w, "start") /\ IsPoint(w.fields["start"])
    /\ Has(w, "end") /\ IsPoint(w.fields["end"])
\* The segments with both endpoints among those the loop has passed
PassedWithEndpoints == SelectSeq(SubSeq(gWalls, 1, gIndex - 1), HasBothEndpoints)
NewWallIds == {w.id : w \in doc.walls \ gSnapshot.walls}

\* C13: a segment without a start or an end is skipped and neither aborts nor
\* rolls back the run; when the loop completes the run commits, and the
\* result list holds one (source id, host id) record for each segment with
\* both endpoints, in input order, and none for a skipped segment.
C13_SkipsKeepOrder ==
    /\ gPc \in {"loop", "done"} =>
          /\ Len(created) = Len(PassedWithEndpoints)
          /\ \A n \in 1..Len(created) :
                /\ created[n][1] = Get(PassedWithEndpoints[n], "id", Str(<<"w", "a", "l", "l">>))
                /\ created[n][2] \in NewWallIds
                /\ \A k \in 1..Len(created) : created[k][2] = created[n][2] => k = n
    /\ gPc = "loop" => txn = "started"
    /\ gPc = "done" => txn = "committed" /\ gIndex = Len(gWalls) + 1
    /\ (gPc = "raised" /\ wall_type # NoValue) =>
          /\ gIndex <= Len(gWalls)
          /\ ~IsDict(gWalls[gIndex]) \/ HasBothEndpoints(gWalls[gIndex])

\* A run over three segments, the second without an end, has committed two
\* records in input order.
C13_Witness ==
    /\ gPc = "done" /\ txn = "committed"
    /\ Len(gWalls) = 3
    /\ HasBothEndpoints(gWalls[1])
    /\ ~Has(gWalls[2], "end")
    /\ HasBothEndpoints(gWalls[3])
    /\ Len(created) = 2
    /\ created[1][1] = Str(s_w1)
    /\ created[2][1] = Str(<<"w", "a", "l", "l">>)
    /\ created[1][2] < created[2][2]

\* C14: validate_and_fix_structure has no side effect: after the call the
\* object the caller passed in is what it was before (no key added, removed
\* or changed).
C14_InputUnchanged ==
    Validated => vData = vGiven

\* The entries of the 'walls' list of data, none when there is no such list
WallItems(data) ==
    IF IsDict(data) /\ Has(data, "walls") /\ IsList(data.fields["walls"])
    THEN data.fields["walls"].items
    ELSE <<>>
\* The wall_ids the input's walls carry themselves are pairwise different
OwnIdsDistinct(data) ==
    \A m, n \in 1..Len(WallItems(data)) :
        (/\ m # n
         /\ IsDict(WallItems(data)[m]) /\ Has(WallItems(data)[m], "wall_id")
         /\ IsDict(WallItems(data)[n]) /\ Has(WallItems(data)[n], "wall_id"))
            => WallItems(data)[m].fields["wall_id"] # WallItems(data)[n].fields["wall_id"]

\* C15: wall ids are unique in a validated model: when some walls of the
\* input carry their own (different) wall_id and the others take the
\* fallback wall_<n> of their position, no two walls of the output share a
\* wall_id.
C15_WallIdsUnique ==
    (Validated /\ vOut.ok /\ OwnIdsDistinct(vGiven)) =>
        \A m, n \in 1..Len(WallItems(vOut.val)) :
            m # n => WallItems(vOut.val)[m].fields["wall_id"] # WallItems(vOut.val)[n].fields["wall_id"]

\* Where the script is, against the calls it has made on the transaction
TransactionCallsInOrder ==
    /\ gPc = "idle" => tLog = <<>>
    /\ gPc \in {"level", "wall_type", "loop"} => tLog = <<"Start">>
    /\ gPc = "done" => tLog = <<"Start", "Commit">>
    /\ gPc = "raised" => tLog = <<"Start", "RollBack">>
\* A step that adds a level or a wall to the document
CreatesElement == doc'.levels \ doc.levels # {} \/ doc'.walls \ doc.walls # {}

=============================================================================
